---- MODULE Spec2Model ----
(***************************************************************************)
(* State-machine model of the snappy binding in src/snappy.rs: the result   *)
(* enumeration and its predicates, the three wrapper functions deflate,     *)
(* inflate and validate (one action per statement), and the five codec      *)
(* primitives of the extern block, modelled from their declarations and    *)
(* documented contracts.  Memory is a sequence of buffers addressed by      *)
(* index; a pointer is an index, 0 is "no buffer".                          *)
(***************************************************************************)
EXTENDS Integers, Sequences, FiniteSets

\* ---------------------------------------------------------------- bounds
MaxByte == 5      \* the byte values 0..MaxByte (and 128) occur in inputs
MaxLen == 2       \* longest input handed to deflate
MaxStream == 5    \* longest byte sequence handed to inflate / validate
MaxCap == 5       \* capacity of the larger buffer the caller supplies

\* The byte values of the model: the small ones, and 128, a byte with the
\* varint continuation bit set.
Byte == (0..MaxByte) \cup {128}

RECURSIVE SeqsUpTo(_, _)
SeqsUpTo(S, n) ==
  IF n = 0 THEN {<<>>}
  ELSE LET shorter == SeqsUpTo(S, n - 1)
       IN shorter \cup {Append(s, b) : s \in {t \in shorter : Len(t) = n - 1}, b \in S}

Zeros(n) == [i \in 1..n |-> 0]

\* The capacities of the buffers the caller supplies: none, one byte, MaxCap.
CallerCaps == {0, 1, MaxCap}

\* ------------------------------------------------------- result taxonomy
SnappyResult == {"Ok", "InvalidInput", "InsufficientBuffer"}

is_ok(r) == IF r = "Ok" THEN TRUE ELSE FALSE
\* A not_ok that looks for one failure variant only.
not_ok_one_variant(r) == IF r = "InvalidInput" THEN TRUE ELSE FALSE

not_ok(r) == ~is_ok(r)
bad_input(r) == IF r = "InvalidInput" THEN TRUE ELSE FALSE
insuff_buf(r) == IF r = "InsufficientBuffer" THEN TRUE ELSE FALSE

\* ------------------------------------------------------ codec primitives
\* Little-endian value of the nb bytes of s starting at position i, an unsigned
\* 32-bit number.  It is only ever compared with lengths of the model, so a
\* value of 2^30 or more is held at 2^30.
RECURSIVE LittleEndian(_, _, _)
LittleEndian(s, i, nb) ==
  IF nb = 0 THEN 0
  ELSE LET high == LittleEndian(s, i + 1, nb - 1)
       IN IF high >= 2 ^ 22 THEN 2 ^ 30 ELSE s[i] + 256 * high

\* The stream's length header: a base-128 varint of at most five bytes.
RECURSIVE Varint32(_, _, _, _)
Varint32(s, i, shift, acc) ==
  IF i > Len(s) \/ shift > 28
  THEN [ok |-> FALSE, value |-> 0, next |-> i]
  ELSE LET v == acc + (s[i] % 128) * (2 ^ shift)
       IN IF s[i] < 128
          THEN [ok |-> TRUE, value |-> v, next |-> i + 1]
          ELSE Varint32(s, i + 1, shift + 7, v)

RECURSIVE EncodeVarint(_)
EncodeVarint(n) ==
  IF n < 128 THEN <<n>> ELSE <<128 + (n % 128)>> \o EncodeVarint(n \div 128)

\* A copy element: l bytes taken off bytes back in the output produced so far
\* (the source range may overlap the bytes being appended).
RECURSIVE CopyBack(_, _, _)
CopyBack(out, off, l) ==
  IF l = 0 THEN out
  ELSE CopyBack(Append(out, out[Len(out) - off + 1]), off, l - 1)

\* Decodes the elements of s from position i into out; n is the length the
\* header announced.  The stream is well formed iff every element is complete,
\* no element produces more than n bytes in total, every copy refers to bytes
\* already produced, and exactly n bytes have been produced at the end.
RECURSIVE Decode(_, _, _, _)
Decode(s, i, out, n) ==
  IF i > Len(s) THEN [ok |-> Len(out) = n, out |-> out]
  ELSE
    LET tag == s[i]
        kind == tag % 4
        bad == [ok |-> FALSE, out |-> out]
    IN IF kind = 0
       THEN LET nb == IF (tag \div 4) < 60 THEN 0 ELSE (tag \div 4) - 59
                l == IF nb = 0 THEN (tag \div 4) + 1 ELSE LittleEndian(s, i + 1, nb) + 1
                from == i + nb + 1
            IN IF i + nb > Len(s) THEN bad
               ELSE IF from + l - 1 > Len(s) \/ Len(out) + l > n THEN bad
               ELSE Decode(s, from + l, out \o SubSeq(s, from, from + l - 1), n)
       ELSE LET nb == IF kind = 1 THEN 1 ELSE IF kind = 2 THEN 2 ELSE 4
                l == IF kind = 1 THEN 4 + ((tag \div 4) % 8) ELSE (tag \div 4) + 1
                off == IF kind = 1 THEN (tag \div 32) * 256 + s[i + 1]
                       ELSE LittleEndian(s, i + 1, nb)
            IN IF i + nb > Len(s) THEN bad
               ELSE IF off = 0 \/ off > Len(out) \/ Len(out) + l > n THEN bad
               ELSE Decode(s, i + nb + 1, CopyBack(out, off, l), n)

snappy_max_compressed_length(source_length) ==
  32 + source_length + (source_length \div 6)

\* Inputs this short are emitted as the length header followed by one literal.
snappy_compress(in, compressed_length) ==
  IF compressed_length < snappy_max_compressed_length(Len(in))
  THEN [res |-> "InsufficientBuffer", written |-> <<>>]
  ELSE [res |-> "Ok",
        written |-> EncodeVarint(Len(in))
                    \o (IF Len(in) = 0 THEN <<>> ELSE <<(Len(in) - 1) * 4>> \o in)]

snappy_uncompressed_length(compressed) ==
  LET h == Varint32(compressed, 1, 0, 0)
  IN IF h.ok THEN [res |-> "Ok", result |-> h.value]
     ELSE [res |-> "InvalidInput", result |-> 0]

\* written: the bytes the primitive stores at the start of "uncompressed";
\* a stream that turns out corrupt has still stored what it decoded so far.
snappy_uncompress(compressed, uncompressed_length) ==
  LET h == Varint32(compressed, 1, 0, 0)
  IN IF ~h.ok THEN [res |-> "InvalidInput", written |-> <<>>]
     ELSE IF uncompressed_length < h.value
     THEN [res |-> "InsufficientBuffer", written |-> <<>>]
     ELSE LET d == Decode(compressed, h.next, <<>>, h.value)
          IN [res |-> IF d.ok THEN "Ok" ELSE "InvalidInput", written |-> d.out]

snappy_validate_compressed_buffer(compressed) ==
  LET h == Varint32(compressed, 1, 0, 0)
  IN IF h.ok /\ Decode(compressed, h.next, <<>>, h.value).ok
     THEN "Ok" ELSE "InvalidInput"

\* ------------------------------------------------------------------ state
VARIABLES
  pc,          \* the statement about to run: "idle", a source line, "done", "crashed"
  op,          \* the function called
  input,       \* the bytes behind the input pointer (its length is the length argument)
  mem,         \* every buffer in memory: [cap, data, by], by = who allocated it
  arg_ptr,     \* the caller's buffer_ptr / output argument (passed by value)
  held,        \* the buffers the caller holds a pointer to
  buffer_ptr,  \* deflate's local buffer_ptr of line 79 (0 when not in scope)
  output_len,  \* the local output_len of deflate and of inflate
  check,       \* inflate's local check
  ret,         \* the SnappyResult returned by deflate or inflate
  valid,       \* the bool returned by validate
  trace,       \* the codec primitives called in this call, in order, with their results
  oob,         \* a primitive has stored bytes past the capacity of its destination
  orig,        \* the bytes deflate was last called on
  roundtrip,   \* the inflate call reads the buffer the caller holds after deflate
  probe        \* a result value and what the four predicates say of it

vars == <<pc, op, input, mem, arg_ptr, held, buffer_ptr, output_len, check, ret,
          valid, trace, oob, orig, roundtrip, probe>>

NoProbe == [r |-> "Ok", is_ok |-> FALSE, not_ok |-> FALSE, bad_input |-> FALSE,
            insuff_buf |-> FALSE]

Init ==
  /\ pc = "idle" /\ op = "none" /\ input = <<>> /\ mem = <<>>
  /\ arg_ptr = 0 /\ held = {} /\ buffer_ptr = 0 /\ output_len = 0
  /\ check = "Ok" /\ ret = "Ok" /\ valid = FALSE /\ trace = <<>>
  /\ oob = FALSE /\ orig = <<>> /\ roundtrip = FALSE /\ probe = NoProbe

\* A buffer the caller allocated and zero-filled.
CallerBuffer(c) == [cap |-> c, data |-> Zeros(c), by |-> "caller"]

\* malloc(size): a new buffer of that capacity, nothing stored in it yet.
malloc(size) == [cap |-> size, data |-> <<>>, by |-> "malloc"]

\* The buffer after a primitive stores bytes at its start: what fits is stored,
\* the bytes behind it keep their value.
Store(buf, bytes) ==
  LET n == IF Len(bytes) < buf.cap THEN Len(bytes) ELSE buf.cap
  IN [buf EXCEPT !.data = SubSeq(bytes, 1, n) \o SubSeq(buf.data, n + 1, Len(buf.data))]

Called(prim, res, n) == [prim |-> prim, res |-> res, n |-> n]

\* ---------------------------------------------------------------- deflate
\* The caller calls deflate(input, length, buffer_ptr) with a buffer of its own.
Call_deflate ==
  /\ pc = "idle"
  /\ \E B \in SeqsUpTo(Byte, MaxLen), c \in CallerCaps :
       /\ input' = B /\ orig' = B
       /\ mem' = <<CallerBuffer(c)>>
  /\ arg_ptr' = 1 /\ held' = {1}
  /\ op' = "deflate" /\ pc' = "deflate_78"
  /\ UNCHANGED <<buffer_ptr, output_len, check, ret, valid, trace, oob, roundtrip, probe>>

deflate_78 ==
  /\ pc = "deflate_78"
  /\ output_len' = snappy_max_compressed_length(Len(input))
  /\ trace' = Append(trace, Called("snappy_max_compressed_length", "-", output_len'))
  /\ pc' = "deflate_79"
  /\ UNCHANGED <<op, input, mem, arg_ptr, held, buffer_ptr, check, ret, valid, oob,
                 orig, roundtrip, probe>>

\* Line 79 allocating the input's length instead of the bound.
deflate_79_input_size ==
  /\ pc = "deflate_79"
  /\ mem' = Append(mem, malloc(Len(input)))
  /\ buffer_ptr' = Len(mem) + 1
  /\ pc' = "deflate_81"
  /\ UNCHANGED <<op, input, arg_ptr, held, output_len, check, ret, valid, trace, oob,
                 orig, roundtrip, probe>>

\* Line 79 left out: buffer_ptr is the caller's argument.
deflate_79_no_shadow ==
  /\ pc = "deflate_79"
  /\ buffer_ptr' = arg_ptr
  /\ pc' = "deflate_81"
  /\ UNCHANGED <<op, input, mem, arg_ptr, held, output_len, check, ret, valid, trace,
                 oob, orig, roundtrip, probe>>

\* let buffer_ptr = malloc(output_len): a new local that shadows the argument.
deflate_79 ==
  /\ pc = "deflate_79"
  /\ mem' = Append(mem, malloc(output_len))
  /\ buffer_ptr' = Len(mem) + 1
  /\ pc' = "deflate_81"
  /\ UNCHANGED <<op, input, arg_ptr, held, output_len, check, ret, valid, trace, oob,
                 orig, roundtrip, probe>>

\* snappy_compress(input, length, buffer_ptr, output_len) and the return: only
\* the result code goes back, the local buffer_ptr goes out of scope.
deflate_81 ==
  /\ pc = "deflate_81"
  /\ LET r == snappy_compress(input, output_len)
     IN /\ mem' = [mem EXCEPT ![buffer_ptr] = Store(@, r.written)]
        /\ oob' = (oob \/ Len(r.written) > mem[buffer_ptr].cap)
        /\ trace' = Append(trace, Called("snappy_compress", r.res, output_len))
        /\ ret' = r.res
  /\ buffer_ptr' = 0
  /\ pc' = "done"
  /\ UNCHANGED <<op, input, arg_ptr, held, output_len, check, valid, orig, roundtrip,
                 probe>>

\* ---------------------------------------------------------------- inflate
\* The caller calls inflate(input, length, output) on any byte sequence, with
\* an output buffer of its own.
Call_inflate ==
  /\ pc = "idle"
  /\ \E X \in SeqsUpTo(Byte, MaxStream), c \in CallerCaps :
       /\ input' = X
       /\ mem' = <<CallerBuffer(c)>>
  /\ arg_ptr' = 1 /\ held' = {1}
  /\ op' = "inflate" /\ pc' = "inflate_87"
  /\ UNCHANGED <<buffer_ptr, output_len, check, ret, valid, trace, oob, orig, roundtrip,
                 probe>>

\* After a deflate that returned Ok the caller inflates what deflate left it
\* with: the buffer behind the pointer it holds, at that buffer's length.
Call_inflate_held ==
  /\ pc = "done" /\ op = "deflate" /\ is_ok(ret)
  /\ input' = mem[arg_ptr].data
  /\ \E c \in CallerCaps : mem' = Append(mem, CallerBuffer(c))
  /\ arg_ptr' = Len(mem) + 1 /\ held' = held \cup {Len(mem) + 1}
  /\ roundtrip' = TRUE
  /\ trace' = <<>>
  /\ op' = "inflate" /\ pc' = "inflate_87"
  /\ UNCHANGED <<buffer_ptr, output_len, check, ret, valid, oob, orig, probe>>

\* output_len = &mut 0; check = snappy_uncompressed_length(input, length, output_len)
inflate_87 ==
  /\ pc = "inflate_87"
  /\ LET q == snappy_uncompressed_length(input)
     IN /\ check' = q.res
        /\ output_len' = q.result
        /\ trace' = Append(trace, Called("snappy_uncompressed_length", q.res, q.result))
  /\ pc' = "inflate_89"
  /\ UNCHANGED <<op, input, mem, arg_ptr, held, buffer_ptr, ret, valid, oob, orig,
                 roundtrip, probe>>

\* Line 89 left out: the decompress call follows the query whatever it said.
inflate_89_no_return ==
  /\ pc = "inflate_89"
  /\ pc' = "inflate_91"
  /\ UNCHANGED <<op, input, mem, arg_ptr, held, buffer_ptr, output_len, check, ret,
                 valid, trace, oob, orig, roundtrip, probe>>

\* if check.not_ok() { return SnappyResult::InvalidInput }
inflate_89 ==
  /\ pc = "inflate_89"
  /\ IF not_ok(check)
     THEN ret' = "InvalidInput" /\ pc' = "done"
     ELSE ret' = ret /\ pc' = "inflate_91"
  /\ UNCHANGED <<op, input, mem, arg_ptr, held, buffer_ptr, output_len, check, valid,
                 trace, oob, orig, roundtrip, probe>>

\* Line 91 folding every failure of the decompress call into InsufficientBuffer.
inflate_91_remap ==
  /\ pc = "inflate_91"
  /\ LET r == snappy_uncompress(input, output_len)
     IN /\ oob' = (oob \/ Len(r.written) > mem[arg_ptr].cap)
        /\ trace' = Append(trace, Called("snappy_uncompress", r.res, output_len))
        /\ mem' = [mem EXCEPT ![arg_ptr] = Store(@, r.written)]
        /\ ret' = IF is_ok(r.res) THEN "Ok" ELSE "InsufficientBuffer"
  /\ pc' = "done"
  /\ UNCHANGED <<op, input, arg_ptr, held, buffer_ptr, output_len, check, valid, orig,
                 roundtrip, probe>>

\* snappy_uncompress(input, length, output, *output_len): the capacity argument
\* is the length the header announced, whatever the capacity of output is.  A
\* store past the end of output is undefined behaviour: the call either
\* returns with the bytes behind the buffer overwritten, or the process dies.
inflate_91 ==
  /\ pc = "inflate_91"
  /\ LET r == snappy_uncompress(input, output_len)
         past == Len(r.written) > mem[arg_ptr].cap
     IN /\ oob' = (oob \/ past)
        /\ trace' = Append(trace, Called("snappy_uncompress", r.res, output_len))
        /\ \/ /\ mem' = [mem EXCEPT ![arg_ptr] = Store(@, r.written)]
              /\ ret' = r.res
              /\ pc' = "done"
           \/ /\ past
              /\ pc' = "crashed"
              /\ UNCHANGED <<mem, ret>>
  /\ UNCHANGED <<op, input, arg_ptr, held, buffer_ptr, output_len, check, valid, orig,
                 roundtrip, probe>>

\* --------------------------------------------------------------- validate
Call_validate ==
  /\ pc = "idle"
  /\ \E X \in SeqsUpTo(Byte, MaxStream) : input' = X
  /\ op' = "validate" /\ pc' = "validate_97"
  /\ UNCHANGED <<mem, arg_ptr, held, buffer_ptr, output_len, check, ret, valid, trace,
                 oob, orig, roundtrip, probe>>

\* validate's value: snappy_validate_compressed_buffer(input, length).is_ok()
validate_wrong(in) == not_ok(snappy_validate_compressed_buffer(in))

validate(in) == is_ok(snappy_validate_compressed_buffer(in))

\* A validate that decodes into a scratch buffer of its own.
validate_97_scratch ==
  /\ pc = "validate_97"
  /\ LET q == snappy_uncompressed_length(input)
         r == snappy_uncompress(input, q.result)
     IN /\ valid' = is_ok(r.res)
        /\ mem' = Append(mem, Store(malloc(q.result), r.written))
        /\ trace' = Append(trace, Called("snappy_uncompress", r.res, q.result))
  /\ pc' = "done"
  /\ UNCHANGED <<op, input, arg_ptr, held, buffer_ptr, output_len, check, ret, oob,
                 orig, roundtrip, probe>>

validate_97 ==
  /\ pc = "validate_97"
  /\ LET r == snappy_validate_compressed_buffer(input)
     IN /\ valid' = validate(input)
        /\ trace' = Append(trace, Called("snappy_validate_compressed_buffer", r, 0))
  /\ pc' = "done"
  /\ UNCHANGED <<op, input, mem, arg_ptr, held, buffer_ptr, output_len, check, ret, oob,
                 orig, roundtrip, probe>>

\* ------------------------------------------------------ result predicates
\* The caller classifies a result value with the four predicates.
classify ==
  /\ pc = "idle"
  /\ \E r \in SnappyResult :
       probe' = [r |-> r, is_ok |-> is_ok(r), not_ok |-> not_ok(r),
                 bad_input |-> bad_input(r), insuff_buf |-> insuff_buf(r)]
  /\ op' = "classify" /\ pc' = "done"
  /\ UNCHANGED <<input, mem, arg_ptr, held, buffer_ptr, output_len, check, ret, valid,
                 trace, oob, orig, roundtrip>>

Next ==
  \/ Call_deflate \/ deflate_78 \/ deflate_79 \/ deflate_81
  \/ Call_inflate \/ Call_inflate_held \/ inflate_87 \/ inflate_89 \/ inflate_91
  \/ Call_validate \/ validate_97
  \/ classify

Spec == Init /\ [][Next]_vars

TypeOK ==
  /\ pc \in {"idle", "deflate_78", "deflate_79", "deflate_81", "inflate_87",
             "inflate_89", "inflate_91", "validate_97", "done", "crashed"}
  /\ ret \in SnappyResult /\ check \in SnappyResult
  /\ valid \in BOOLEAN /\ oob \in BOOLEAN
  /\ \A i \in DOMAIN mem : Len(mem[i].data) <= mem[i].cap

\* ------------------------------------------------------------- properties
Returned(f) == pc = "done" /\ op = f

Last(s) == s[Len(s)]

\* The positions of trace at which the primitive prim was called.
Calls(prim) == {i \in DOMAIN trace : trace[i].prim = prim}

\* The buffers obtained from malloc that nobody holds a pointer to.
Orphans ==
  {i \in DOMAIN mem : mem[i].by = "malloc" /\ i \notin held /\ i # buffer_ptr}

\* C1: after deflate on B, inflate on the buffer the caller holds returns Ok
\* and stores exactly B in the output.
C1_RoundTripIdentity ==
  (op = "inflate" /\ roundtrip /\ pc \in {"done", "crashed"}) =>
    /\ pc = "done"
    /\ is_ok(ret)
    /\ output_len = Len(orig)
    /\ SubSeq(mem[arg_ptr].data, 1, output_len) = orig

\* C2: when deflate returns Ok the caller holds the buffer deflate allocated,
\* that buffer holds the compressed bytes, and no allocated buffer is left
\* without an owner.  (The true compressed length has no carrier at all: the
\* call returns the result code and nothing else.)
C2_CallerOwnsBuffer ==
  (Returned("deflate") /\ is_ok(ret)) =>
    /\ \E p \in held : /\ mem[p].by = "malloc"
                       /\ mem[p].data = snappy_compress(input, output_len).written
    /\ Orphans = {}

\* C3: an inflate call on X returns Ok exactly when validate says true of X.
C3_ValidateAgreement ==
  Returned("inflate") => (is_ok(ret) <=> validate(input))

C3_Witness ==
  /\ Returned("inflate") /\ ~roundtrip /\ is_ok(ret) /\ validate(input)
  /\ Len(input) = MaxLen + 2

\* C4: when the decompress primitive is called, the length has been obtained
\* from the uncompressed-length query, the output buffer's capacity is at least
\* that length, and no store ever goes past a buffer's capacity.
C4_DestinationCapacity ==
  /\ pc = "inflate_91" =>
       /\ Calls("snappy_uncompressed_length") = {1}
       /\ output_len = trace[1].n
       /\ mem[arg_ptr].cap >= output_len
  /\ ~oob

\* C5: once the uncompressed-length query of an inflate call has failed, the
\* decompress primitive is not called, the output buffer keeps its bytes, and
\* the call returns InvalidInput.
C5_InflateShortCircuit ==
  (op = "inflate" /\ Calls("snappy_uncompressed_length") # {} /\ not_ok(check)) =>
    /\ Calls("snappy_uncompress") = {}
    /\ mem[arg_ptr] = CallerBuffer(mem[arg_ptr].cap)
    /\ pc \in {"inflate_89", "done"}
    /\ pc = "done" => ret = "InvalidInput"

C5_Witness ==
  /\ Returned("inflate") /\ not_ok(check) /\ ret = "InvalidInput"
  /\ Len(input) > 0 /\ mem[arg_ptr].cap > 0

\* C6: deflate returns the result of the compress primitive; inflate returns
\* the result of the decompress primitive when the length query said Ok, and
\* InvalidInput, without a decompress call, when it did not.
C6_ResultPassThrough ==
  /\ Returned("deflate") =>
       /\ Last(trace).prim = "snappy_compress"
       /\ ret = Last(trace).res
  /\ (Returned("inflate") /\ is_ok(check)) =>
       /\ Last(trace).prim = "snappy_uncompress"
       /\ ret = Last(trace).res
  /\ (Returned("inflate") /\ not_ok(check)) =>
       /\ Last(trace).prim = "snappy_uncompressed_length"
       /\ ret = "InvalidInput"

C6_Witness ==
  /\ Returned("inflate") /\ is_ok(check)
  /\ Last(trace).res = "InvalidInput" /\ ret = "InvalidInput"

\* C7: in a deflate call the bound is queried first, and the compress
\* primitive is called on a buffer allocated in this call, nothing stored in it
\* yet, whose capacity is the bound for the input's length.
C7_DeflateBufferBound ==
  /\ pc = "deflate_81" =>
       /\ trace = <<Called("snappy_max_compressed_length", "-",
                           snappy_max_compressed_length(Len(input)))>>
       /\ buffer_ptr = Len(mem) /\ buffer_ptr # arg_ptr
       /\ mem[buffer_ptr] = malloc(snappy_max_compressed_length(Len(input)))
  /\ op = "deflate" =>
       \A i \in Calls("snappy_compress") :
         /\ \E j \in Calls("snappy_max_compressed_length") : j < i
         /\ trace[i].n = snappy_max_compressed_length(Len(input))

C7_Witness ==
  /\ Returned("deflate") /\ Calls("snappy_compress") = {2}
  /\ Len(input) = MaxLen

\* C8: a validate call leaves every buffer and the input as they are, creates
\* no buffer, stores nothing, calls the validate primitive and nothing else,
\* and returns true exactly when that primitive returned Ok.
C8_ValidateFrame ==
  [][op' = "validate" =>
       /\ mem' = mem
       /\ oob' = oob
       /\ op = "validate" => input' = input
       /\ pc' = "done" =>
            /\ trace' = Append(trace, Called("snappy_validate_compressed_buffer",
                                             Last(trace').res, 0))
            /\ valid' = is_ok(Last(trace').res)]_vars

C8_Witness == Returned("validate") /\ valid /\ Len(input) > 1

\* C9: of every result value exactly one of is_ok, bad_input and insuff_buf is
\* true, and not_ok is the complement of is_ok.
C9_PredicatesPartition ==
  op = "classify" =>
    /\ probe.r \in SnappyResult
    /\ Cardinality({f \in {"is_ok", "bad_input", "insuff_buf"} : probe[f]}) = 1
    /\ probe.is_ok <=> probe.r = "Ok"
    /\ probe.bad_input <=> probe.r = "InvalidInput"
    /\ probe.insuff_buf <=> probe.r = "InsufficientBuffer"
    /\ probe.not_ok <=> ~probe.is_ok
    /\ probe.not_ok <=> probe.r \in {"InvalidInput", "InsufficientBuffer"}

C9_Witness == op = "classify" /\ probe.r = "InsufficientBuffer" /\ probe.not_ok

\* C10: no step of a deflate call changes the buffer behind the caller's
\* buffer_ptr or the input; the compressed bytes are in a buffer deflate
\* allocated.
C10_DeflateLeavesCallerBuffer ==
  /\ [][(op = "deflate" /\ op' = "deflate") =>
          (mem'[arg_ptr] = mem[arg_ptr] /\ arg_ptr' = arg_ptr /\ input' = input)]_vars
  /\ [](Returned("deflate") =>
          \E i \in DOMAIN mem : /\ mem[i].by = "malloc"
                                /\ mem[i].data = snappy_compress(input, output_len).written)

C10_Witness ==
  /\ Returned("deflate") /\ mem[arg_ptr].cap > 0 /\ Len(input) > 0
  /\ mem[arg_ptr] = CallerBuffer(mem[arg_ptr].cap)

====
